---- MODULE Spec2Model ----
(***************************************************************************)
(* Model of the explicit-free-list allocator of src/mm.c.                  *)
(*                                                                         *)
(* The heap is a byte array (little endian words, as on the x86-64 target  *)
(* of the allocator).  Every C routine is an operator that maps a machine  *)
(* state record to the machine state after the routine, statement by       *)
(* statement; the public operations are the actions.                       *)
(*                                                                         *)
(* Scaling.  CHUNKSIZE is 1<<12 in the source and 1<<ChunkShift here, the  *)
(* arena limit of memlib is MaxGrow chunks, and size_t is SizeBits wide    *)
(* (so that the requests near the top of size_t, where the size            *)
(* arithmetic of malloc wraps, are numbers the model checker can hold).    *)
(*                                                                         *)
(* Indeterminate bytes.  A byte holds POISON when its content is not       *)
(* known: memory fresh from mem_sbrk, and, as long as the caller has made  *)
(* no request in WrapSizes, every byte that is, once a public operation    *)
(* has returned, neither a boundary tag, nor a link field of a free        *)
(* block, nor one of the bytes a live allocation asked for (Scrub).  A     *)
(* word read with such a byte, or outside the arena, is UNDEF.  The        *)
(* program acting on an UNDEF value ends the run in the state "lost"       *)
(* (what the program does then depends on bytes the model does not         *)
(* know), a store outside the arena ends it in "segv" and a list walk      *)
(* that does not end in "hang".                                            *)
(***************************************************************************)
EXTENDS Integers, FiniteSets, Sequences, TLC

(* ------------------------------ bounds -------------------------------- *)
ChunkShift == 5
MaxGrow == 2
MaxLive == 2
MaxTail == 2
SizeBits == 16

(* --------------------------- program constants ------------------------ *)
WSIZE == 4
DSIZE == 8
MIN_BLK_SIZE == 16
CHUNKSIZE == 2 ^ ChunkShift
SIZE_MOD == 2 ^ SizeBits
NULL == 0

(* memlib (not part of src/): the arena starts at mem_start_brk and       *)
(* mem_sbrk fails once the break would pass mem_max_addr, which mem_init  *)
(* sets MAX_HEAP bytes above the start; DEEP_HEAP is the size of the      *)
(* arena of the specification that starts from a heap of MaxGrow + 1      *)
(* chunks.                                                                *)
mem_start_brk == 64
MAX_HEAP == 4 * WSIZE + MaxGrow * CHUNKSIZE
DEEP_HEAP == MAX_HEAP + CHUNKSIZE
Addr == mem_start_brk .. (mem_start_brk + DEEP_HEAP - 1)

(* Request sizes of the caller: ordinary ones, the ones for which         *)
(* size + 15 passes the top of size_t, and the (nmemb, size) pairs of     *)
(* calloc.                                                                *)
ReqSizes == {1, 12, 20}
WrapSizes == {SIZE_MOD - 12, SIZE_MOD - 4}
CallocArgs == {<<0, 4>>, <<3, 3>>}

VARIABLES mem, mem_brk, mem_max_addr, heap_listp, root, heap_base, live, tail,
          pc, seglist, hash_arg, hash_ret

(* seglist is the state of the other allocator of the repository,         *)
(* src/mm-seglist.c, and hash_arg, hash_ret the argument and the result   *)
(* of its hashBlkSize; a program linked with mm.c leaves the three alone. *)
seglist_vars == <<seglist, hash_arg, hash_ret>>

mm_vars ==
    <<mem, mem_brk, mem_max_addr, heap_listp, root, heap_base, live, tail, pc>>

vars == <<mm_vars, seglist_vars>>

NotLinked == [pc |-> "none"]

(* ------------------------- machine state record ----------------------- *)
(* mem, brk, heap_listp, root, heap_base: the program's memory and        *)
(* globals.  ret: the value the routine returns.  wr, rd: the bytes the   *)
(* routine wrote and the bytes memcpy read.  sbrk: whether mem_sbrk was   *)
(* called and what it answered last.  pc: "run", or how the run ended.    *)
POISON == 0 - 1

Machine ==
    [mem |-> mem, brk |-> mem_brk, max |-> mem_max_addr,
     heap_listp |-> heap_listp, root |-> root,
     heap_base |-> heap_base, ret |-> NULL, wr |-> {}, rd |-> {},
     sbrk |-> "none", pc |-> "run"]

Blank ==
    [mem |-> [a \in Addr |-> POISON], brk |-> mem_start_brk,
     max |-> mem_start_brk + MAX_HEAP, heap_listp |-> 0,
     root |-> 0, heap_base |-> 0, ret |-> NULL, wr |-> {}, rd |-> {},
     sbrk |-> "none", pc |-> "run"]

Stopped(s) == s.pc # "run"

Ret(s, v) == IF Stopped(s) THEN s ELSE [s EXCEPT !.ret = v]

Lost == [Blank EXCEPT !.pc = "lost"]

Segv == [Blank EXCEPT !.pc = "segv"]

Hang == [Blank EXCEPT !.pc = "hang"]

UNDEF == 0 - 2 ^ 20

(* The machine state a following call starts in. *)
Fresh(s) ==
    IF Stopped(s) THEN s
    ELSE [s EXCEPT !.ret = NULL, !.wr = {}, !.rd = {}, !.sbrk = "none"]


(* ------------------------------ raw memory ---------------------------- *)
(* The bytes of the arena are those below the break. *)
Mapped(s, a) == a >= mem_start_brk /\ a < s.brk

Byte(s, a) == IF Mapped(s, a) THEN s.mem[a] ELSE POISON

LittleEndian(b0, b1, b2, b3) ==
    IF b0 = POISON \/ b1 = POISON \/ b2 = POISON \/ b3 = POISON
    THEN UNDEF
    ELSE b0 + 256 * b1 + 65536 * b2 + 16777216 * b3

(* Arithmetic on values that may be UNDEF. *)
Plus(a, b) == IF a = UNDEF \/ b = UNDEF THEN UNDEF ELSE a + b

Minus(a, b) == IF a = UNDEF \/ b = UNDEF THEN UNDEF ELSE a - b

(* GET: the unsigned int at p, little endian. *)
GET(s, p) ==
    IF p = UNDEF THEN UNDEF
    ELSE LittleEndian(Byte(s, p), Byte(s, p + 1), Byte(s, p + 2), Byte(s, p + 3))

(* PUT: the low 32 bits of val stored at p. *)
PUT(s, p, val) ==
    IF p = UNDEF \/ val = UNDEF THEN Lost
    ELSE IF Mapped(s, p) /\ Mapped(s, p + 3)
    THEN [s EXCEPT !.mem = [@ EXCEPT ![p] = val % 256,
                                     ![p + 1] = (val \div 256) % 256,
                                     ![p + 2] = (val \div 65536) % 256,
                                     ![p + 3] = (val \div 16777216) % 256],
                   !.wr = @ \cup (p .. (p + 3))]
    ELSE Segv

MAX(x, y) == IF x > y THEN x ELSE y

(* size | alloc for alloc in {0, 1} *)
PACK(size, alloc) == IF size % 2 = 1 /\ alloc = 1 THEN size ELSE size + alloc

ClearLow3(v) == IF v = UNDEF THEN UNDEF ELSE v - (v % 8)

LowBit(v) == IF v = UNDEF THEN UNDEF ELSE v % 2

GET_SIZE(s, p) == ClearLow3(GET(s, p))

GET_ALLOC(s, p) == LowBit(GET(s, p))

HDRP(bp) == Minus(bp, WSIZE)

FTRP(s, bp) == Minus(Plus(bp, GET_SIZE(s, HDRP(bp))), DSIZE)

NEXT_BLKP(s, bp) == Plus(bp, GET_SIZE(s, Minus(bp, WSIZE)))

PREV_BLKP(s, bp) == Minus(bp, GET_SIZE(s, Minus(bp, DSIZE)))

(* ----------------------------- link fields ---------------------------- *)
(* ptoi: the difference as an unsigned int; a pointer below heap_base     *)
(* gives a value near 2^32, which the model leaves UNDEF.                 *)
ptoi(s, p) == IF p = UNDEF \/ p < s.heap_base THEN UNDEF ELSE p - s.heap_base

itop(s, p) == Plus(p, s.heap_base)

next_free_val(s, bp) == GET(s, bp)

prev_free_val(s, bp) == GET(s, Plus(bp, WSIZE))

put_prev_val(s, bp, p) == PUT(s, Plus(bp, WSIZE), p)

put_next_val(s, bp, p) == PUT(s, bp, p)

NonZero(s, v) == IF v = UNDEF THEN UNDEF ELSE IF v # 0 THEN itop(s, v) ELSE NULL

get_next_free(s, bp) == NonZero(s, next_free_val(s, bp))

get_prev_free(s, bp) == NonZero(s, prev_free_val(s, bp))

(* ------------------------------- memlib ------------------------------- *)
(* mem_sbrk(incr): the old break, or -1 and no change.  grant = FALSE is  *)
(* the primitive refusing for a reason of its own.                        *)
mem_sbrk(s, incr, grant) ==
    IF grant /\ s.brk + incr <= s.max
    THEN [s EXCEPT !.brk = @ + incr, !.ret = s.brk, !.sbrk = "ok"]
    ELSE [s EXCEPT !.ret = -1, !.sbrk = "fail"]

(* string.h: memcpy and memset, byte by byte; rd collects the bytes read. *)
(* Copying between ranges that overlap is undefined.                      *)
memcpy(s, dst, src, n) ==
    IF dst = UNDEF \/ src = UNDEF \/ n = UNDEF THEN Lost
    ELSE IF n = 0 THEN s
    ELSE IF ~(Mapped(s, dst) /\ dst + n <= s.brk) THEN Segv
    ELSE IF ~(Mapped(s, src) /\ src + n <= s.brk) THEN Lost
    ELSE IF dst < src + n /\ src < dst + n THEN Lost
    ELSE [s EXCEPT !.mem = [a \in Addr |->
                               IF a >= dst /\ a < dst + n
                               THEN s.mem[src + (a - dst)] ELSE s.mem[a]],
                   !.wr = @ \cup (dst .. (dst + n - 1)),
                   !.rd = @ \cup (src .. (src + n - 1))]

memset(s, dst, c, n) ==
    IF dst = UNDEF \/ n = UNDEF THEN Lost
    ELSE IF n = 0 THEN s
    ELSE IF ~(Mapped(s, dst) /\ dst + n <= s.brk) THEN Segv
    ELSE [s EXCEPT !.mem = [a \in Addr |->
                               IF a >= dst /\ a < dst + n THEN c ELSE s.mem[a]],
                   !.wr = @ \cup (dst .. (dst + n - 1))]

(* ------------------------------ sequencing ---------------------------- *)
(* A routine R is the operator R(s, ...) from the machine state at its    *)
(* entry to the machine state at its return.  R_n(s, ...) is R from line  *)
(* n of src/mm.c on, s being the machine state reached there and the      *)
(* other arguments the parameters and locals of R.  A machine that has    *)
(* stopped executes nothing more, and a local that is UNDEF when the      *)
(* program goes on to use it ends the run in "lost".                      *)
SetRoot(s, r) ==
    IF Stopped(s) THEN s
    ELSE IF r = UNDEF THEN Lost
    ELSE [s EXCEPT !.root = r]

(* --------------------------- free list: remove ------------------------ *)
deleteFree_462(s, bp) ==
    IF Stopped(s) THEN s
    ELSE IF bp = s.root THEN SetRoot(s, get_next_free(s, bp))
    ELSE s

deleteFree_458(s, bp, next_free, prev_free) ==
    IF Stopped(s) \/ next_free = 0 THEN s
    ELSE deleteFree_462(put_prev_val(s, itop(s, next_free), prev_free), bp)

deleteFree_454(s, bp, next_free, prev_free) ==
    IF next_free = UNDEF \/ prev_free = UNDEF THEN Lost
    ELSE deleteFree_458(IF prev_free # 0
                        THEN put_next_val(s, itop(s, prev_free), next_free)
                        ELSE s,
                        bp, next_free, prev_free)

deleteFree(s, bp) ==
    IF Stopped(s) THEN s
    ELSE deleteFree_454(s, bp, next_free_val(s, bp), prev_free_val(s, bp))

(* --------------------------- free list: insert ------------------------ *)
insertFree_495(s, bp) ==
    IF Stopped(s) THEN s ELSE [s EXCEPT !.root = bp]

insertFree_492(s, bp) ==
    IF Stopped(s) THEN s ELSE put_prev_val(s, s.root, ptoi(s, bp))

insertFree_486(s, bp) ==
    IF Stopped(s) THEN s
    ELSE IF next_free_val(s, bp) = UNDEF THEN Lost
    ELSE IF next_free_val(s, bp) # 0
    THEN put_prev_val(s, itop(s, next_free_val(s, bp)), ptoi(s, bp))
    ELSE s

insertFree_480(s, bp) ==
    IF Stopped(s) THEN s
    ELSE IF s.root = NULL
    THEN put_next_val(s, bp, 0)
    ELSE IF s.root > bp /\ NEXT_BLKP(s, bp) = UNDEF
    THEN Lost
    ELSE IF s.root > bp /\ s.root < NEXT_BLKP(s, bp)
    THEN insertFree_486(put_next_val(s, bp, next_free_val(s, s.root)), bp)
    ELSE IF bp # s.root
    THEN insertFree_492(put_next_val(s, bp, ptoi(s, s.root)), bp)
    ELSE s

insertFree(s, bp) ==
    IF Stopped(s) THEN s
    ELSE insertFree_495(insertFree_480(put_prev_val(s, bp, 0), bp), bp)

(* ------------------------------- coalesce ----------------------------- *)
(* Case 2 *)
coalesce_323(s, bp) == Ret(insertFree(s, bp), bp)

coalesce_321(s, bp, size) ==
    IF Stopped(s) THEN s
    ELSE coalesce_323(PUT(s, FTRP(s, bp), PACK(size, 0)), bp)

coalesce_320(s, bp, size) ==
    IF Stopped(s) THEN s
    ELSE coalesce_321(PUT(s, HDRP(bp), PACK(size, 0)), bp, size)

coalesce_318(s, bp, size) ==
    IF size = UNDEF THEN Lost
    ELSE coalesce_320(deleteFree(s, NEXT_BLKP(s, bp)), bp, size)

(* Case 3 *)
coalesce_334(s, bp) ==
    IF Stopped(s) THEN s
    ELSE IF PREV_BLKP(s, bp) = UNDEF THEN Lost
    ELSE Ret(insertFree(s, PREV_BLKP(s, bp)), PREV_BLKP(s, bp))

coalesce_333(s, bp, size) ==
    IF Stopped(s) THEN s
    ELSE coalesce_334(PUT(s, HDRP(PREV_BLKP(s, bp)), PACK(size, 0)), bp)

coalesce_332(s, bp, size) ==
    IF Stopped(s) THEN s
    ELSE coalesce_333(PUT(s, FTRP(s, bp), PACK(size, 0)), bp, size)

coalesce_330(s, bp, size) ==
    IF size = UNDEF THEN Lost
    ELSE coalesce_332(deleteFree(s, PREV_BLKP(s, bp)), bp, size)

(* Case 4 *)
coalesce_349(s, bp) ==
    IF Stopped(s) THEN s
    ELSE IF PREV_BLKP(s, bp) = UNDEF THEN Lost
    ELSE Ret(insertFree(s, PREV_BLKP(s, bp)), PREV_BLKP(s, bp))

coalesce_348(s, bp, size) ==
    IF Stopped(s) THEN s
    ELSE coalesce_349(PUT(s, FTRP(s, NEXT_BLKP(s, bp)), PACK(size, 0)), bp)

coalesce_347(s, bp, size) ==
    IF Stopped(s) THEN s
    ELSE coalesce_348(PUT(s, HDRP(PREV_BLKP(s, bp)), PACK(size, 0)), bp, size)

coalesce_345(s, bp, size) ==
    IF Stopped(s) THEN s
    ELSE coalesce_347(deleteFree(s, PREV_BLKP(s, bp)), bp, size)

coalesce_344(s, bp, size) ==
    IF size = UNDEF THEN Lost
    ELSE coalesce_345(deleteFree(s, NEXT_BLKP(s, bp)), bp, size)

coalesce_308(s, bp, prev_alloc, next_alloc, size) ==
    IF prev_alloc = UNDEF \/ next_alloc = UNDEF \/ size = UNDEF
    THEN Lost
    ELSE IF prev_alloc # 0 /\ next_alloc # 0
    THEN Ret(insertFree(s, bp), bp)
    ELSE IF prev_alloc # 0 /\ next_alloc = 0
    THEN coalesce_318(s, bp,
             Plus(size, GET_SIZE(s, HDRP(NEXT_BLKP(s, bp)))))
    ELSE IF prev_alloc = 0 /\ next_alloc # 0
    THEN coalesce_330(s, bp,
             Plus(size, GET_SIZE(s, HDRP(PREV_BLKP(s, bp)))))
    ELSE coalesce_344(s, bp,
             Plus(Plus(size, GET_SIZE(s, HDRP(PREV_BLKP(s, bp)))),
                  GET_SIZE(s, FTRP(s, NEXT_BLKP(s, bp)))))

coalesce(s, bp) ==
    IF Stopped(s) THEN s
    ELSE coalesce_308(s, bp,
             GET_ALLOC(s, FTRP(s, PREV_BLKP(s, bp))),
             GET_ALLOC(s, HDRP(NEXT_BLKP(s, bp))),
             GET_SIZE(s, HDRP(bp)))

(* ------------------------------ extend_heap --------------------------- *)
extend_heap_290(s, bp) ==
    IF Stopped(s) THEN s
    ELSE coalesce(PUT(s, HDRP(NEXT_BLKP(s, bp)), PACK(0, 1)), bp)

extend_heap_289(s, bp, size) ==
    IF Stopped(s) THEN s
    ELSE extend_heap_290(PUT(s, FTRP(s, bp), PACK(size, 0)), bp)

extend_heap_286(s, size) ==
    IF Stopped(s) THEN s
    ELSE IF s.ret = -1
    THEN Ret(s, NULL)
    ELSE extend_heap_289(PUT(s, HDRP(s.ret), PACK(size, 0)), s.ret, size)

extend_heap_285(s, size, grant) ==
    extend_heap_286(mem_sbrk(s, size, grant), size)

extend_heap(s, words, grant) ==
    IF Stopped(s) THEN s
    ELSE extend_heap_285(s,
             IF words % 2 = 1
             THEN ((words + 1) * WSIZE) % SIZE_MOD
             ELSE (words * WSIZE) % SIZE_MOD,
             grant)

(* -------------------------------- mm_init ----------------------------- *)
mm_init_145(s) ==
    IF Stopped(s) THEN s
    ELSE IF s.ret = NULL THEN Ret(s, -1) ELSE Ret(s, 0)

mm_init_137(s, grant) ==
    IF Stopped(s) THEN s
    ELSE mm_init_145(extend_heap([s EXCEPT !.heap_listp = @ + (2 * WSIZE)],
                                 CHUNKSIZE \div WSIZE, grant))

mm_init_136(s, grant) ==
    IF Stopped(s) THEN s
    ELSE mm_init_137(PUT(s, s.heap_listp + (3 * WSIZE), PACK(0, 1)), grant)

mm_init_135(s, grant) ==
    IF Stopped(s) THEN s
    ELSE mm_init_136(PUT(s, s.heap_listp + (2 * WSIZE), PACK(DSIZE, 1)), grant)

mm_init_134(s, grant) ==
    IF Stopped(s) THEN s
    ELSE mm_init_135(PUT(s, s.heap_listp + (1 * WSIZE), PACK(DSIZE, 1)), grant)

mm_init_130(s, grant) ==
    mm_init_134(PUT([s EXCEPT !.heap_base = s.heap_listp, !.root = 0],
                    s.heap_listp, 0),
                grant)

mm_init_128(s, grant) ==
    IF s.heap_listp = -1 THEN Ret(s, -1) ELSE mm_init_130(s, grant)

mm_init_127(s, grant) ==
    mm_init_128([s EXCEPT !.heap_listp = s.ret], grant)

mm_init(s, grant) ==
    IF Stopped(s) THEN s
    ELSE mm_init_127(mem_sbrk(s, 4 * WSIZE, grant), grant)

(* --------------------------------- place ------------------------------ *)
(* The block is split: lines 378-394. *)
place_392(s, old_bp, bp) ==
    IF Stopped(s) THEN s
    ELSE IF old_bp = s.root THEN [s EXCEPT !.root = bp]
    ELSE s

place_390(s, old_bp, bp) ==
    IF Stopped(s) THEN s
    ELSE IF next_free_val(s, bp) = UNDEF THEN Lost
    ELSE place_392(IF next_free_val(s, bp) # 0
                   THEN put_prev_val(s, itop(s, next_free_val(s, bp)),
                                     ptoi(s, bp))
                   ELSE s,
                   old_bp, bp)

place_388(s, old_bp, bp) ==
    IF Stopped(s) THEN s
    ELSE IF prev_free_val(s, bp) = UNDEF THEN Lost
    ELSE place_390(IF prev_free_val(s, bp) # 0
                   THEN put_next_val(s, itop(s, prev_free_val(s, bp)),
                                     ptoi(s, bp))
                   ELSE s,
                   old_bp, bp)

place_386(s, old_bp, bp) ==
    IF Stopped(s) THEN s
    ELSE place_388(put_next_val(s, bp, next_free_val(s, old_bp)), old_bp, bp)

place_385(s, old_bp, bp) ==
    IF Stopped(s) THEN s
    ELSE place_386(put_prev_val(s, bp, prev_free_val(s, old_bp)), old_bp, bp)

place_383(s, old_bp, bp, rest) ==
    IF Stopped(s) THEN s
    ELSE place_385(PUT(s, FTRP(s, bp), PACK(rest, 0)), old_bp, bp)

place_382(s, old_bp, bp, rest) ==
    IF bp = UNDEF THEN Lost
    ELSE place_383(PUT(s, HDRP(bp), PACK(rest, 0)), old_bp, bp, rest)

place_381(s, old_bp, rest) ==
    IF Stopped(s) THEN s
    ELSE place_382(s, old_bp, NEXT_BLKP(s, old_bp), rest)

place_379(s, old_bp, asize, rest) ==
    IF Stopped(s) THEN s
    ELSE place_381(PUT(s, FTRP(s, old_bp), PACK(asize, 1)), old_bp, rest)

place_378(s, old_bp, asize, rest) ==
    place_379(PUT(s, HDRP(old_bp), PACK(asize, 1)), old_bp, asize, rest)

(* The block is not split: lines 399-406. *)
place_405(s) ==
    IF Stopped(s) THEN s
    ELSE IF s.root # NULL THEN put_prev_val(s, s.root, 0)
    ELSE s

place_403(s, old_bp) ==
    IF Stopped(s) THEN s
    ELSE IF s.root = old_bp
    THEN place_405(SetRoot(s, get_next_free(s, s.root)))
    ELSE s

place_401(s, old_bp, csize) ==
    IF Stopped(s) THEN s
    ELSE place_403(PUT(s, FTRP(s, old_bp), PACK(csize, 1)), old_bp)

place_400(s, old_bp, csize) ==
    IF Stopped(s) THEN s
    ELSE place_401(PUT(s, HDRP(old_bp), PACK(csize, 1)), old_bp, csize)

place_376(s, old_bp, asize, csize) ==
    IF csize = UNDEF THEN Lost
    ELSE IF (csize - asize) % SIZE_MOD >= 2 * DSIZE
    THEN place_378(s, old_bp, asize, (csize - asize) % SIZE_MOD)
    ELSE place_400(deleteFree(s, old_bp), old_bp, csize)

place(s, bp, asize) ==
    IF Stopped(s) THEN s
    ELSE place_376(s, bp, asize, GET_SIZE(s, HDRP(bp)))

(* -------------------------------- find_fit ---------------------------- *)
(* The for loop from root along the next links.  WalkFuel bounds the walk *)
(* by the number of blocks the arena can hold; a walk that uses it up is  *)
(* a loop that does not end, answered by HANG.                            *)
WalkFuel == DEEP_HEAP \div MIN_BLK_SIZE + 1

HANG == 0 - 1

RECURSIVE find_fit_from(_, _, _, _)
find_fit_from(s, bp, asize, fuel) ==
    IF bp = NULL THEN NULL
    ELSE IF bp = UNDEF \/ GET_SIZE(s, HDRP(bp)) = UNDEF THEN UNDEF
    ELSE IF GET_SIZE(s, HDRP(bp)) >= asize THEN bp
    ELSE IF fuel = 0 THEN HANG
    ELSE find_fit_from(s, get_next_free(s, bp), asize, fuel - 1)

find_fit(s, asize) == find_fit_from(s, s.root, asize, WalkFuel)

(* --------------------------------- malloc ----------------------------- *)
(* The adjusted block size of lines 171-174, in size_t arithmetic.        *)
AdjustedSize(size) ==
    IF size <= DSIZE
    THEN 2 * DSIZE
    ELSE (DSIZE * (((size + DSIZE + (DSIZE - 1)) % SIZE_MOD) \div DSIZE))
           % SIZE_MOD

malloc_188(s, asize) ==
    IF Stopped(s) THEN s
    ELSE IF s.ret = NULL
    THEN Ret(s, NULL)
    ELSE Ret(place(s, s.ret, asize), s.ret)

malloc_178(s, asize, bp, grant) ==
    IF bp = UNDEF THEN Lost
    ELSE IF bp = HANG THEN Hang
    ELSE IF bp # NULL
    THEN Ret(place(s, bp, asize), bp)
    ELSE malloc_188(extend_heap(s, MAX(asize, CHUNKSIZE) \div WSIZE, grant),
                    asize)

malloc_171(s, asize, grant) ==
    malloc_178(s, asize, find_fit(s, asize), grant)

malloc_167_served(s, size, grant) ==
    IF Stopped(s) THEN s
    ELSE malloc_171(s, AdjustedSize(size), grant)

malloc_167(s, size, grant) ==
    IF Stopped(s) THEN s
    ELSE IF size = 0
    THEN Ret(s, NULL)
    ELSE malloc_171(s, AdjustedSize(size), grant)

malloc(s, size, grant) ==
    IF Stopped(s) THEN s
    ELSE malloc_167(IF s.heap_listp = 0 THEN mm_init(s, grant) ELSE s,
                    size, grant)

(* ---------------------------------- free ------------------------------ *)
free_211(s, bp, size) ==
    IF Stopped(s) THEN s
    ELSE coalesce(PUT(s, FTRP(s, bp), PACK(size, 0)), bp)

free_210(s, bp, size) ==
    IF Stopped(s) THEN s
    ELSE free_211(PUT(s, HDRP(bp), PACK(size, 0)), bp, size)

free_207(s, bp, size, grant) ==
    IF size = UNDEF THEN Lost
    ELSE free_210(IF s.heap_listp = 0 THEN mm_init(s, grant) ELSE s,
                  bp, size)

free(s, bp, grant) ==
    IF Stopped(s) \/ bp = 0 THEN s
    ELSE free_207(s, bp, GET_SIZE(s, HDRP(bp)), grant)

(* --------------------------------- realloc ---------------------------- *)
realloc_250(s, ptr, newptr, grant) == Ret(free(s, ptr, grant), newptr)

realloc_246(s, ptr, size, oldsize, grant) ==
    IF oldsize = UNDEF THEN Lost
    ELSE realloc_250(memcpy(s, s.ret, ptr,
                            IF size < oldsize THEN size ELSE oldsize),
                     ptr, s.ret, grant)

(* realloc with the old block freed before the answer of malloc is       *)
(* tested: what line 240 guards against.                                 *)
realloc_240_freed(s, ptr, size, grant) ==
    IF Stopped(s) THEN s
    ELSE IF s.ret = NULL
    THEN Ret(free(s, ptr, grant), 0)
    ELSE realloc_246(s, ptr, size, GET_SIZE(s, HDRP(ptr)), grant)

realloc_240(s, ptr, size, grant) ==
    IF Stopped(s) THEN s
    ELSE IF s.ret = NULL
    THEN Ret(s, 0)
    ELSE realloc_246(s, ptr, size, GET_SIZE(s, HDRP(ptr)), grant)

realloc(s, ptr, size, grant) ==
    IF Stopped(s) THEN s
    ELSE IF size = 0
    THEN Ret(free(s, ptr, grant), NULL)
    ELSE IF ptr = NULL
    THEN malloc(s, size, grant)
    ELSE realloc_240(malloc(s, size, grant), ptr, size, grant)

(* --------------------------------- calloc ----------------------------- *)
calloc_265(s, bytes) ==
    IF Stopped(s) THEN s
    ELSE Ret(memset(s, s.ret, 0, bytes), s.ret)

calloc_264(s, bytes, grant) == calloc_265(malloc(s, bytes, grant), bytes)

calloc(s, nmemb, size, grant) ==
    calloc_264(s, (nmemb * size) % SIZE_MOD, grant)


(* ------------------------------ heap walk ----------------------------- *)
(* The address-order walk of mm_checkheap: from the prologue, block by    *)
(* block by header size, to the epilogue (size 0).  The walk also stops   *)
(* at a header that cannot be read and when BlockFuel is used up.         *)
BlockFuel == DEEP_HEAP \div DSIZE + 2

RECURSIVE WalkFrom(_, _, _)
WalkFrom(s, bp, fuel) ==
    IF fuel = 0 \/ GET_SIZE(s, HDRP(bp)) = UNDEF
    THEN <<>>
    ELSE IF GET_SIZE(s, HDRP(bp)) = 0
    THEN <<bp>>
    ELSE <<bp>> \o WalkFrom(s, NEXT_BLKP(s, bp), fuel - 1)

Walk(s) == WalkFrom(s, s.heap_listp, BlockFuel)

Word(p) == p .. (p + WSIZE - 1)

Range(f) == {f[k] : k \in DOMAIN f}

(* ------------------------------- the caller --------------------------- *)
(* live maps each pointer the caller holds to the size it asked for.  The *)
(* caller frees and reallocates only pointers it holds, holds at most     *)
(* MaxLive of them and writes only the bytes it asked for; DataByte is    *)
(* the byte it writes at offset i.  tail counts the caller's steps from   *)
(* its first request in WrapSizes on, that request included: the caller   *)
(* makes one such request and MaxTail steps from then on.                 *)
DataByte(i) == 100 + i

Drop(f, p) == [q \in (DOMAIN f) \ {p} |-> f[q]]

Put(f, p, n) == [q \in (DOMAIN f) \cup {p} |-> IF q = p THEN n ELSE f[q]]

Sizes == ReqSizes \cup {0} \cup (IF tail = 0 THEN WrapSizes ELSE {})

Awake == pc = "run" /\ tail < MaxTail

Step(size) == IF tail > 0 \/ size \in WrapSizes THEN tail + 1 ELSE 0

(* The bytes that mean something once an operation has returned: the      *)
(* padding word, every boundary tag of the walk, the two link fields of   *)
(* every free block, and the bytes each live allocation asked for.        *)
TagsAndData(s, lv, bp, size) ==
    Word(HDRP(bp)) \cup
    (IF size = 0 THEN {}
     ELSE Word(bp + size - DSIZE) \cup
          (IF GET_ALLOC(s, HDRP(bp)) = 0
           THEN Word(bp) \cup Word(bp + WSIZE)
           ELSE IF bp \in DOMAIN lv
           THEN bp .. (bp + lv[bp] - 1)
           ELSE {}))

Meaningful(s, lv) ==
    Word(s.heap_base) \cup
    UNION {TagsAndData(s, lv, bp, GET_SIZE(s, HDRP(bp))) : bp \in Range(Walk(s))}

ScrubWith(s, M) == [a \in Addr |-> IF a \in M THEN s.mem[a] ELSE POISON]

Scrub(s, lv) == ScrubWith(s, Meaningful(s, lv))

(* What mem_sbrk may answer: it is asked only when find_fit finds nothing. *)
Grants(size) ==
    IF size # 0 /\ find_fit(Machine, AdjustedSize(size)) = NULL
    THEN BOOLEAN ELSE {TRUE}

(* The program state once the run has ended. *)
Halt(why, w) ==
    /\ mem' = Blank.mem
    /\ mem_brk' = mem_start_brk
    /\ mem_max_addr' = mem_max_addr
    /\ heap_listp' = 0
    /\ root' = 0
    /\ heap_base' = 0
    /\ live' = <<>>
    /\ tail' = w
    /\ pc' = why
    /\ UNCHANGED seglist_vars

(* The program state after a routine that ended in machine state s, the   *)
(* caller then holding lv, w steps into its tail.                          *)
Returned(s, lv, w) ==
    IF Stopped(s)
    THEN Halt(s.pc, w)
    ELSE /\ mem' = IF w = 0 THEN Scrub(s, lv) ELSE s.mem
         /\ mem_brk' = s.brk
         /\ mem_max_addr' = s.max
         /\ heap_listp' = s.heap_listp
         /\ root' = s.root
         /\ heap_base' = s.heap_base
         /\ live' = lv
         /\ tail' = w
         /\ pc' = "run"
         /\ UNCHANGED seglist_vars

Held(s, lv, n) == IF s.ret # NULL THEN Put(lv, s.ret, n) ELSE lv

Started(s) ==
    /\ mem = Scrub(s, <<>>)
    /\ mem_brk = s.brk
    /\ mem_max_addr = s.max
    /\ heap_listp = s.heap_listp
    /\ root = s.root
    /\ heap_base = s.heap_base
    /\ live = <<>>
    /\ tail = 0
    /\ pc = "run"
    /\ seglist = NotLinked
    /\ hash_arg = 0
    /\ hash_ret = 0

Init == \E s \in {mm_init(Blank, TRUE)} : Started(s)

AfterMalloc(s, size) == Returned(s, Held(s, live, size), Step(size))

CallMalloc ==
    \E size \in Sizes : \E grant \in Grants(size) :
        /\ Awake
        /\ Cardinality(DOMAIN live) < MaxLive
        /\ \E s \in {malloc(Machine, size, grant)} : AfterMalloc(s, size)

CallFree ==
    \E bp \in (DOMAIN live) \cup {NULL} :
        /\ Awake
        /\ \E s \in {free(Machine, bp, TRUE)} :
               Returned(s, Drop(live, bp), Step(0))

Moved(s, lv, ptr, size) ==
    IF size = 0 THEN Drop(lv, ptr)
    ELSE IF s.ret = NULL THEN lv
    ELSE Put(Drop(lv, ptr), s.ret, size)

AfterRealloc(s, ptr, size) ==
    Returned(s, Moved(s, live, ptr, size), Step(size))

CallRealloc ==
    \E ptr \in (DOMAIN live) \cup {NULL}, size \in Sizes :
      \E grant \in Grants(size) :
        /\ Awake
        /\ ptr = NULL => Cardinality(DOMAIN live) < MaxLive
        /\ \E s \in {realloc(Machine, ptr, size, grant)} :
               AfterRealloc(s, ptr, size)

CallCalloc ==
    \E args \in CallocArgs :
      \E grant \in Grants((args[1] * args[2]) % SIZE_MOD) :
        /\ Awake
        /\ Cardinality(DOMAIN live) < MaxLive
        /\ \E s \in {calloc(Machine, args[1], args[2], grant)} :
               AfterMalloc(s, (args[1] * args[2]) % SIZE_MOD)

(* The caller stores its data in the bytes it asked for. *)
UserWrite ==
    \E p \in DOMAIN live :
        /\ Awake
        /\ IF p + live[p] > mem_brk
           THEN Halt("segv", Step(0))
           ELSE /\ mem' = [a \in Addr |->
                             IF a >= p /\ a < p + live[p]
                             THEN DataByte(a - p) ELSE mem[a]]
                /\ tail' = Step(0)
                /\ UNCHANGED <<mem_brk, mem_max_addr, heap_listp, root, heap_base,
                             live, pc, seglist_vars>>

Next ==
    \/ CallMalloc
    \/ CallFree
    \/ CallRealloc
    \/ CallCalloc
    \/ UserWrite

Spec == Init /\ [][Next]_vars

(* ------------------- a heap of MaxGrow + 1 chunks --------------------- *)
(* The same program where mem_init gave DEEP_HEAP bytes, taken up after   *)
(* the calls a = malloc(1), b = malloc(1), c = malloc(20), d = malloc(20), *)
(* free(c), free(d), free(a): the caller holds b, and the free list is    *)
(* the 16-byte block a followed by the 64-byte block made of c and d.     *)
(* From there the caller allocates ordinary sizes and frees.              *)
DeepBlank == [Blank EXCEPT !.max = mem_start_brk + DEEP_HEAP]

DeepTwo ==
    malloc(Fresh(malloc(Fresh(mm_init(DeepBlank, TRUE)), 1, TRUE)), 1, TRUE)

DeepFour == malloc(Fresh(malloc(Fresh(DeepTwo), 20, TRUE)), 20, TRUE)

DeepHeap ==
    free(Fresh(free(Fresh(free(Fresh(DeepFour), 112, TRUE)), 144, TRUE)),
         80, TRUE)

DeepInit ==
    /\ mem = Scrub(DeepHeap, 96 :> 1)
    /\ mem_brk = DeepHeap.brk
    /\ mem_max_addr = DeepHeap.max
    /\ heap_listp = DeepHeap.heap_listp
    /\ root = DeepHeap.root
    /\ heap_base = DeepHeap.heap_base
    /\ live = (96 :> 1)
    /\ tail = 0
    /\ pc = DeepHeap.pc
    /\ seglist = NotLinked
    /\ hash_arg = 0
    /\ hash_ret = 0

DeepMalloc ==
    \E size \in ReqSizes : \E grant \in Grants(size) :
        /\ Awake
        /\ Cardinality(DOMAIN live) < MaxLive
        /\ \E s \in {malloc(Machine, size, grant)} : AfterMalloc(s, size)

DeepNext ==
    \/ DeepMalloc
    \/ CallFree

DeepSpec == DeepInit /\ [][DeepNext]_vars

(* -------------------- what the heap checker looks at ------------------ *)
(* The blocks of the address-order walk that are neither the prologue nor *)
(* a block of size 0 (the epilogue) and that end inside the region, the   *)
(* free ones among them, and the payload bytes of a block.                *)
Inner(s) ==
    {bp \in Range(Walk(s)) : /\ bp # s.heap_listp
                             /\ GET_SIZE(s, HDRP(bp)) # 0
                             /\ bp + GET_SIZE(s, HDRP(bp)) <= s.brk}

FreeBlocks(s) == {bp \in Inner(s) : GET_ALLOC(s, HDRP(bp)) = 0}

Payload(s, bp) ==
    IF GET_SIZE(s, HDRP(bp)) = UNDEF THEN {}
    ELSE bp .. (bp + GET_SIZE(s, HDRP(bp)) - DSIZE - 1)

(* The free list from root along the next links; an entry UNDEF stands    *)
(* for a link that cannot be followed or a walk that does not end.        *)
RECURSIVE ListFrom(_, _, _)
ListFrom(s, bp, fuel) ==
    IF bp = NULL THEN <<>>
    ELSE IF bp = UNDEF \/ fuel = 0 THEN <<UNDEF>>
    ELSE <<bp>> \o ListFrom(s, get_next_free(s, bp), fuel - 1)

FreeList(s) == ListFrom(s, s.root, WalkFuel)

RECURSIVE SumSizes(_, _)
SumSizes(s, B) ==
    IF B = {} THEN 0
    ELSE SumSizes(s, B \ {CHOOSE bp \in B : TRUE})
         + GET_SIZE(s, HDRP(CHOOSE bp \in B : TRUE))

(* Every request size a caller can make, and the machine states the       *)
(* public operations lead to from the present state.                      *)
AllSizes == ReqSizes \cup WrapSizes

Ptrs == DOMAIN live

(* ------------------------------- claims ------------------------------- *)
(* C1: every pointer the caller holds heads a block whose header has the  *)
(* allocated bit set and whose payload capacity, size - 8, is at least    *)
(* the size the caller asked for, and the payloads of the blocks the      *)
(* caller holds are pairwise disjoint.                                    *)
C1_LiveBlocks ==
    pc = "run" =>
        /\ \A p \in Ptrs :
              /\ GET_ALLOC(Machine, HDRP(p)) = 1
              /\ GET_SIZE(Machine, HDRP(p)) - DSIZE >= live[p]
        /\ \A p \in Ptrs : \A q \in Ptrs \ {p} :
              Payload(Machine, p) \cap Payload(Machine, q) = {}

(* C2: a call writes no byte of the payload of a block that is allocated *)
(* before and after the call and is neither its argument nor its result. *)
(* s is the machine state a call with argument arg returns in; s.wr are  *)
(* the bytes the call wrote.                                             *)
Framed(s, arg) ==
    Stopped(s) \/
    \A q \in Ptrs \ {arg, s.ret} :
        (GET_ALLOC(Machine, HDRP(q)) = 1 /\ GET_ALLOC(s, HDRP(q)) = 1)
            => s.wr \cap Payload(Machine, q) = {}

C2_Frame ==
    pc = "run" =>
        /\ \A size \in AllSizes, grant \in BOOLEAN :
              \A s \in {malloc(Machine, size, grant)} : Framed(s, NULL)
        /\ \A bp \in Ptrs :
              \A s \in {free(Machine, bp, TRUE)} : Framed(s, bp)
        /\ \A ptr \in Ptrs, size \in AllSizes \cup {0}, grant \in BOOLEAN :
              \A s \in {realloc(Machine, ptr, size, grant)} : Framed(s, ptr)
        /\ \A args \in CallocArgs, grant \in BOOLEAN :
              \A s \in {calloc(Machine, args[1], args[2], grant)} :
                  Framed(s, NULL)

(* C3: no free block is followed in address order by another free block. *)
C3_NoAdjacentFree ==
    pc = "run" =>
        \A bp \in FreeBlocks(Machine) :
            NEXT_BLKP(Machine, bp) \notin FreeBlocks(Machine)

(* C4: the blocks on the free list are exactly the blocks of the region  *)
(* whose allocated bit is 0, each of them once.                          *)
C4_ListIsFreeSet ==
    pc = "run" =>
        /\ UNDEF \notin Range(FreeList(Machine))
        /\ Range(FreeList(Machine)) = FreeBlocks(Machine)
        /\ Len(FreeList(Machine)) = Cardinality(FreeBlocks(Machine))

(* C5: the free list is finite and acyclic, root is 0 or a free block    *)
(* whose prev link is 0, and the next link of the prev of a listed block *)
(* and the prev link of its next lead back to the block.                 *)
C5_ListLinks ==
    pc = "run" =>
        /\ UNDEF \notin Range(FreeList(Machine))
        /\ Len(FreeList(Machine)) = Cardinality(Range(FreeList(Machine)))
        /\ root # 0 => /\ root \in FreeBlocks(Machine)
                       /\ prev_free_val(Machine, root) = 0
        /\ \A b \in Range(FreeList(Machine)) \ {UNDEF} :
              /\ get_prev_free(Machine, b) # NULL =>
                    get_next_free(Machine, get_prev_free(Machine, b)) = b
              /\ get_next_free(Machine, b) # NULL =>
                    get_prev_free(Machine, get_next_free(Machine, b)) = b

(* C6: the footer word of every block other than the prologue and the    *)
(* epilogue equals its header word.                                      *)
C6_FooterIsHeader ==
    pc = "run" =>
        \A bp \in Inner(Machine) :
            GET(Machine, FTRP(Machine, bp)) = GET(Machine, HDRP(bp))

(* C7: the size of every block other than the prologue and the epilogue  *)
(* is a multiple of 8 and at least 16.                                   *)
C7_BlockSizes ==
    pc = "run" =>
        \A bp \in Inner(Machine) :
            /\ GET_SIZE(Machine, HDRP(bp)) % DSIZE = 0
            /\ GET_SIZE(Machine, HDRP(bp)) >= MIN_BLK_SIZE

(* C8: the prologue header and footer are 8|1, the last word of the      *)
(* region is the epilogue header 0|1, the walk by header sizes ends at   *)
(* that epilogue, and the block sizes add up to the region size less 16. *)
C8_Sentinels ==
    pc = "run" =>
        /\ GET(Machine, HDRP(heap_listp)) = PACK(DSIZE, 1)
        /\ GET(Machine, heap_listp) = PACK(DSIZE, 1)
        /\ GET(Machine, mem_brk - WSIZE) = PACK(0, 1)
        /\ Walk(Machine) # <<>>
        /\ Walk(Machine)[Len(Walk(Machine))] = mem_brk
        /\ SumSizes(Machine, Inner(Machine))
              = (mem_brk - mem_start_brk) - 4 * WSIZE

(* No run is lost, hangs or faults before a request in WrapSizes, apart  *)
(* from calloc storing through the null pointer malloc gave it.          *)
NoStopBeforeWrap == pc \in {"lost", "hang"} => tail > 0

(* C9: a successful realloc(p, n), n > 0, of a pointer p the caller      *)
(* holds for a request of m bytes returns a pointer other than p whose   *)
(* first min(m, n) bytes (those that lie in the region) are the bytes p  *)
(* held before the call, and leaves the block of p free.                 *)
MinOf(a, b) == IF a < b THEN a ELSE b

Copied(s, p, n) ==
    (~Stopped(s) /\ s.ret # NULL) =>
        /\ s.ret # p
        /\ \A i \in 0 .. (MinOf(MinOf(live[p], n), s.brk - mem_start_brk) - 1) :
              Byte(s, s.ret + i) = Byte(Machine, p + i)
        /\ GET_ALLOC(s, HDRP(p)) = 0

C9_Realloc ==
    pc = "run" =>
        \A p \in Ptrs, n \in AllSizes, grant \in BOOLEAN :
            \A s \in {realloc(Machine, p, n, grant)} : Copied(s, p, n)

(* C10: a malloc(n) or realloc(p, n), n > 0, in which mem_sbrk fails     *)
(* returns null and leaves the memory, the break and the globals as they *)
(* were; the block of p is allocated after the call if it was before,    *)
(* and holds the bytes it held.                                          *)
Refused(s) ==
    s.sbrk = "fail" =>
        /\ s.ret = NULL
        /\ s.mem = mem
        /\ s.brk = mem_brk
        /\ s.root = root
        /\ s.heap_listp = heap_listp
        /\ s.heap_base = heap_base

StillHeld(s, p) ==
    s.sbrk = "fail" =>
        /\ GET_ALLOC(s, HDRP(p)) = GET_ALLOC(Machine, HDRP(p))
        /\ \A a \in Payload(Machine, p) : Byte(s, a) = Byte(Machine, a)

Blocks(s) ==
    [k \in DOMAIN Walk(s) |->
        <<Walk(s)[k], GET_SIZE(s, HDRP(Walk(s)[k])),
          GET_ALLOC(s, HDRP(Walk(s)[k]))>>]

Freed(s) == free(Fresh(s), s.ret, TRUE)

(* C11: p = malloc(n), n > 0, that did not extend the region, followed   *)
(* by free(p), leaves the (address, size, allocated) blocks as they were *)
(* before the malloc; and after any successful malloc(n); free(p) a      *)
(* second malloc(n); free(p) does not call mem_sbrk and leaves the same  *)
(* blocks, so the same number of free blocks.                            *)
RoundTrip(s) ==
    (~Stopped(s) /\ s.ret # NULL /\ s.sbrk = "none") =>
        \A t \in {Freed(s)} :
            ~Stopped(t) /\ Blocks(t) = Blocks(Machine)

Again(t, n) ==
    \A g \in BOOLEAN : \A u \in {malloc(Fresh(t), n, g)} :
        /\ ~Stopped(u)
        /\ u.ret # NULL
        /\ u.sbrk = "none"
        /\ \A v \in {Freed(u)} :
              /\ ~Stopped(v)
              /\ Blocks(v) = Blocks(t)
              /\ Cardinality(FreeBlocks(v)) = Cardinality(FreeBlocks(t))

Repeated(s, n) ==
    (~Stopped(s) /\ s.ret # NULL) =>
        \A t \in {Freed(s)} : ~Stopped(t) /\ Again(t, n)

C11_AllocFreeRoundTrip ==
    pc = "run" =>
        \A n \in AllSizes, grant \in BOOLEAN :
            \A s \in {malloc(Machine, n, grant)} :
                RoundTrip(s) /\ Repeated(s, n)

(* C12: malloc(n), n > 0, calls mem_sbrk only when no block of the free  *)
(* list has a size of at least the adjusted size; when one has, the      *)
(* break stays where it is and the pointer returned is a block that was  *)
(* free before the call.                                                 *)
Fits(asize) ==
    {b \in Range(FreeList(Machine)) \ {UNDEF} :
        GET_SIZE(Machine, HDRP(b)) >= asize}

Reused(s, asize) ==
    /\ s.sbrk # "none" => Fits(asize) = {}
    /\ Fits(asize) # {} => /\ ~Stopped(s)
                           /\ s.brk = mem_brk
                           /\ s.ret \in FreeBlocks(Machine)

C12_ExtendOnlyWithoutFit ==
    pc = "run" =>
        \A n \in AllSizes, grant \in BOOLEAN :
            \A s \in {malloc(Machine, n, grant)} :
                Reused(s, AdjustedSize(n))

(* C13: on an initialised allocator malloc(0), free(NULL) and            *)
(* realloc(NULL, 0) return (NULL where a value is returned) and change   *)
(* nothing: no byte of memory, no global, and the break stays.           *)
Untouched(s) ==
    /\ ~Stopped(s)
    /\ s.ret = NULL
    /\ s.wr = {}
    /\ s.sbrk = "none"
    /\ s.mem = mem
    /\ s.brk = mem_brk
    /\ s.root = root
    /\ s.heap_listp = heap_listp
    /\ s.heap_base = heap_base

C13_DegenerateRequests ==
    (pc = "run" /\ heap_listp # 0) =>
        \A grant \in BOOLEAN :
            /\ \A s \in {malloc(Machine, 0, grant)} : Untouched(s)
            /\ \A s \in {free(Machine, NULL, grant)} : Untouched(s)
            /\ \A s \in {realloc(Machine, NULL, 0, grant)} : Untouched(s)

(* C13 happens: the three calls are made on a heap that holds a live     *)
(* allocation and a free block, and each returns.                        *)
C13_Witness ==
    /\ pc = "run"
    /\ heap_listp # 0
    /\ Ptrs # {}
    /\ root # NULL
    /\ malloc(Machine, 0, TRUE).pc = "run"
    /\ free(Machine, NULL, TRUE).pc = "run"
    /\ realloc(Machine, NULL, 0, TRUE).pc = "run"

(* C14: calloc(nmemb, size) with a product that does not fit size_t     *)
(* returns NULL and has no effect: no byte is written, no block is       *)
(* allocated or split and the break stays.  OverflowArgs are such        *)
(* (nmemb, size): the product is 2 * SIZE_MOD - 2, and SIZE_MOD + 12.    *)
OverflowArgs == {<<SIZE_MOD - 1, 2>>, <<SIZE_MOD \div 2 + 6, 2>>}

NoEffect(s) ==
    /\ ~Stopped(s)
    /\ s.ret = NULL
    /\ s.wr = {}
    /\ s.mem = mem
    /\ s.brk = mem_brk
    /\ s.root = root

C14_CallocOverflow ==
    pc = "run" =>
        \A args \in OverflowArgs, grant \in BOOLEAN :
            \A s \in {calloc(Machine, args[1], args[2], grant)} :
                NoEffect(s)

(* C15: when the malloc inside calloc(nmemb, size) returns NULL (the     *)
(* product is 0, or mem_sbrk fails), calloc returns NULL and writes no   *)
(* byte of memory.                                                       *)
NullKept(m, s) ==
    (~Stopped(m) /\ m.ret = NULL) =>
        /\ ~Stopped(s)
        /\ s.ret = NULL
        /\ s.wr = {}
        /\ s.mem = mem

C15_CallocOfNull ==
    pc = "run" =>
        \A args \in CallocArgs, grant \in BOOLEAN :
            \A m \in {malloc(Machine, (args[1] * args[2]) % SIZE_MOD, grant)} :
                \A s \in {calloc(Machine, args[1], args[2], grant)} :
                    NullKept(m, s)

(* ------------------- the segregated variant, mm-seglist.c ------------- *)
(* The routines of src/mm-seglist.c on the paths of malloc, calloc, free, *)
(* in the same step form: seglist_R_n is routine R of that file from its  *)
(* line n on.  The macros GET, PUT, GET_SIZE, ... are those of mm.c word  *)
(* for word.  The machine state record has the globals of that file.     *)
NUM_SIZES == 29
IR_SIZES == 15
PWR2_SIZES == 14

(* The arena given to mm-seglist.c: its array of heads, the padding, the  *)
(* prologue and the epilogue, and SeglistRoom bytes of blocks.            *)
SeglistRoom == 312

seglist_MAX_HEAP == NUM_SIZES * DSIZE + 4 * WSIZE + SeglistRoom

seglist_Addr == mem_start_brk .. (mem_start_brk + seglist_MAX_HEAP - 1)

seglist_Blank ==
    [mem |-> [a \in seglist_Addr |-> POISON], brk |-> mem_start_brk,
     heap_listp |-> 0, free_lists_base |-> 0, free_lists_end |-> 0,
     free_lists_pwr2_base |-> 0, ret |-> NULL, wr |-> {}, rd |-> {},
     sbrk |-> "none", pc |-> "run"]

seglist_mem_sbrk(s, incr, grant) ==
    IF grant /\ s.brk + incr <= mem_start_brk + seglist_MAX_HEAP
    THEN [s EXCEPT !.brk = @ + incr, !.ret = s.brk, !.sbrk = "ok"]
    ELSE [s EXCEPT !.ret = -1, !.sbrk = "fail"]

(* GET_PTR, PUT_PTR: a long, low word first; every pointer of the model   *)
(* has a high word of 0.                                                  *)
GET_PTR(s, addr) ==
    IF GET(s, addr) = UNDEF \/ GET(s, Plus(addr, WSIZE)) # 0
    THEN UNDEF
    ELSE GET(s, addr)

PUT_PTR(s, addr, ptr) ==
    IF Stopped(s) THEN s
    ELSE IF Stopped(PUT(s, addr, ptr)) THEN PUT(s, addr, ptr)
    ELSE PUT(PUT(s, addr, ptr), Plus(addr, WSIZE), 0)

seglist_itop(bpi) ==
    IF bpi = UNDEF THEN UNDEF
    ELSE IF bpi # 0 THEN bpi + mem_start_brk ELSE NULL

get_prev_free_bp(s, bp) == seglist_itop(GET(s, bp))

get_next_free_bp(s, bp) == seglist_itop(GET(s, Plus(bp, WSIZE)))

RECURSIVE countOne_378(_, _)
countOne_378(n, count) ==
    IF n = 0 THEN count
    ELSE IF count + 1 = PWR2_SIZES - 1 THEN count + 1
    ELSE countOne_378(n \div 2, count + 1)

(* countOne without the break of line 380. *)
RECURSIVE countOne_nobreak(_)
countOne_nobreak(n) == IF n = 0 THEN 0 ELSE 1 + countOne_nobreak(n \div 2)

countOne(n) == countOne_378(n, 0)

(* hashBlkSize shifting words by 5 where line 372 shifts by 6. *)
hashBlkSize_shift5(s, asize) ==
    IF asize = UNDEF THEN UNDEF
    ELSE IF asize \div WSIZE <= 32
    THEN (s.free_lists_base
            + (((asize \div WSIZE - 4) % SIZE_MOD) \div 2) * DSIZE) % SIZE_MOD
    ELSE s.free_lists_pwr2_base + countOne((asize \div WSIZE) \div 32) * DSIZE

(* hashBlkSize: the address of the list head for a size; words - 4 is     *)
(* computed in size_t and the sum in the width of a pointer.              *)
hashBlkSize(s, asize) ==
    IF asize = UNDEF THEN UNDEF
    ELSE IF asize \div WSIZE <= 32
    THEN (s.free_lists_base
            + (((asize \div WSIZE - 4) % SIZE_MOD) \div 2) * DSIZE) % SIZE_MOD
    ELSE s.free_lists_pwr2_base + countOne((asize \div WSIZE) \div 64) * DSIZE

(* deleteBlk, lines 286-303. *)
seglist_deleteBlk_300(s, bp, prev, next) ==
    IF Stopped(s) \/ next = 0 THEN s
    ELSE PUT(s, get_next_free_bp(s, bp), prev)

seglist_deleteBlk_291(s, bp, prev, next) ==
    IF prev = UNDEF \/ next = UNDEF THEN Lost
    ELSE seglist_deleteBlk_300(
             IF prev # 0
             THEN PUT(s, Plus(get_prev_free_bp(s, bp), WSIZE), next)
             ELSE PUT_PTR(s, hashBlkSize(s, GET_SIZE(s, HDRP(bp))),
                          seglist_itop(next)),
             bp, prev, next)

seglist_deleteBlk(s, bp) ==
    IF Stopped(s) THEN s
    ELSE seglist_deleteBlk_291(s, bp, GET(s, bp), GET(s, Plus(bp, WSIZE)))

(* coalesce, lines 234-278; it inserts nothing. *)
seglist_coalesce_250(s, bp, size) ==
    IF Stopped(s) THEN s
    ELSE Ret(PUT(s, FTRP(s, bp), PACK(size, 0)), bp)

seglist_coalesce_249(s, bp, size) ==
    IF Stopped(s) THEN s
    ELSE seglist_coalesce_250(PUT(s, HDRP(bp), PACK(size, 0)), bp, size)

seglist_coalesce_247(s, bp, size) ==
    IF size = UNDEF THEN Lost
    ELSE seglist_coalesce_249(seglist_deleteBlk(s, NEXT_BLKP(s, bp)), bp, size)

seglist_coalesce_261(s, bp) ==
    IF Stopped(s) THEN s
    ELSE IF PREV_BLKP(s, bp) = UNDEF THEN Lost
    ELSE Ret(s, PREV_BLKP(s, bp))

seglist_coalesce_260(s, bp, size) ==
    IF Stopped(s) THEN s
    ELSE seglist_coalesce_261(
             PUT(s, HDRP(PREV_BLKP(s, bp)), PACK(size, 0)), bp)

seglist_coalesce_259(s, bp, size) ==
    IF Stopped(s) THEN s
    ELSE seglist_coalesce_260(PUT(s, FTRP(s, bp), PACK(size, 0)), bp, size)

(* Case 3 with the tags of lines 259-260 written before the deleteBlk of *)
(* line 257.                                                            *)
seglist_coalesce_257_late(s, bp, size) ==
    IF size = UNDEF THEN Lost
    ELSE seglist_coalesce_261(
             seglist_deleteBlk(
                 PUT(PUT(s, FTRP(s, bp), PACK(size, 0)),
                     HDRP(PREV_BLKP(s, bp)), PACK(size, 0)),
                 PREV_BLKP(s, bp)),
             bp)

seglist_coalesce_257(s, bp, size) ==
    IF size = UNDEF THEN Lost
    ELSE seglist_coalesce_259(seglist_deleteBlk(s, PREV_BLKP(s, bp)), bp, size)

seglist_coalesce_273(s, bp, size) ==
    IF Stopped(s) THEN s
    ELSE seglist_coalesce_261(
             PUT(s, FTRP(s, NEXT_BLKP(s, bp)), PACK(size, 0)), bp)

seglist_coalesce_272(s, bp, size) ==
    IF Stopped(s) THEN s
    ELSE seglist_coalesce_273(
             PUT(s, HDRP(PREV_BLKP(s, bp)), PACK(size, 0)), bp, size)

seglist_coalesce_270(s, bp, size) ==
    IF Stopped(s) THEN s
    ELSE seglist_coalesce_272(seglist_deleteBlk(s, PREV_BLKP(s, bp)), bp, size)

seglist_coalesce_269(s, bp, size) ==
    IF size = UNDEF THEN Lost
    ELSE seglist_coalesce_270(seglist_deleteBlk(s, NEXT_BLKP(s, bp)), bp, size)

seglist_coalesce_240(s, bp, prev_alloc, next_alloc, size) ==
    IF prev_alloc = UNDEF \/ next_alloc = UNDEF \/ size = UNDEF
    THEN Lost
    ELSE IF prev_alloc # 0 /\ next_alloc # 0
    THEN Ret(s, bp)
    ELSE IF prev_alloc # 0 /\ next_alloc = 0
    THEN seglist_coalesce_247(s, bp,
             Plus(size, GET_SIZE(s, HDRP(NEXT_BLKP(s, bp)))))
    ELSE IF prev_alloc = 0 /\ next_alloc # 0
    THEN seglist_coalesce_257(s, bp,
             Plus(size, GET_SIZE(s, HDRP(PREV_BLKP(s, bp)))))
    ELSE seglist_coalesce_269(s, bp,
             Plus(size, Plus(GET_SIZE(s, HDRP(PREV_BLKP(s, bp))),
                             GET_SIZE(s, HDRP(NEXT_BLKP(s, bp))))))

seglist_coalesce(s, bp) ==
    IF Stopped(s) THEN s
    ELSE seglist_coalesce_240(s, bp,
             GET_ALLOC(s, FTRP(s, PREV_BLKP(s, bp))),
             GET_ALLOC(s, HDRP(NEXT_BLKP(s, bp))),
             GET_SIZE(s, HDRP(bp)))

(* extend_heap, lines 210-225. *)
seglist_extend_heap_221(s, bp) ==
    IF Stopped(s) THEN s
    ELSE seglist_coalesce(PUT(s, HDRP(NEXT_BLKP(s, bp)), PACK(0, 1)), bp)

seglist_extend_heap_220(s, bp, size) ==
    IF Stopped(s) THEN s
    ELSE seglist_extend_heap_221(PUT(s, FTRP(s, bp), PACK(size, 0)), bp)

seglist_extend_heap_217(s, size) ==
    IF Stopped(s) THEN s
    ELSE IF s.ret = -1
    THEN Ret(s, NULL)
    ELSE seglist_extend_heap_220(PUT(s, HDRP(s.ret), PACK(size, 0)),
                                 s.ret, size)

seglist_extend_heap(s, words, grant) ==
    IF Stopped(s) THEN s
    ELSE seglist_extend_heap_217(
             seglist_mem_sbrk(s,
                 IF words % 2 = 1
                 THEN ((words + 1) * WSIZE) % SIZE_MOD
                 ELSE (words * WSIZE) % SIZE_MOD,
                 grant),
             IF words % 2 = 1
             THEN ((words + 1) * WSIZE) % SIZE_MOD
             ELSE (words * WSIZE) % SIZE_MOD)

(* find_fit, lines 335-351: the while loop along one list, the for loop  *)
(* over the list heads from hashBlkSize(asize) to free_lists_end.        *)
RECURSIVE seglist_find_fit_343(_, _, _, _)
seglist_find_fit_343(s, bp, asize, fuel) ==
    IF bp = NULL THEN NULL
    ELSE IF bp = UNDEF \/ GET_SIZE(s, HDRP(bp)) = UNDEF THEN UNDEF
    ELSE IF GET_SIZE(s, HDRP(bp)) >= asize THEN bp
    ELSE IF fuel = 0 THEN HANG
    ELSE seglist_find_fit_343(s, get_next_free_bp(s, bp), asize, fuel - 1)

RECURSIVE seglist_find_fit_341(_, _, _, _)
seglist_find_fit_341(s, array_ptr, asize, fuel) ==
    IF array_ptr = UNDEF THEN UNDEF
    ELSE IF ~(array_ptr < s.free_lists_end) THEN NULL
    ELSE IF fuel = 0 THEN HANG
    ELSE IF seglist_find_fit_343(s, GET_PTR(s, array_ptr), asize, WalkFuel)
              # NULL
    THEN seglist_find_fit_343(s, GET_PTR(s, array_ptr), asize, WalkFuel)
    ELSE seglist_find_fit_341(s, array_ptr + DSIZE, asize, fuel - 1)

(* find_fit without its for loop: the list of the size's own class only. *)
seglist_find_fit_onelist(s, asize) ==
    seglist_find_fit_343(s, GET_PTR(s, hashBlkSize(s, asize)), asize,
                         WalkFuel)

seglist_find_fit(s, asize) ==
    seglist_find_fit_341(s, hashBlkSize(s, asize), asize, NUM_SIZES + 2)

(* place, lines 356-359: it does nothing. *)
seglist_place(s, bp, asize) == s

(* mm_init, lines 119-141. *)
RECURSIVE seglist_mm_init_127(_, _)
seglist_mm_init_127(s, i) ==
    IF Stopped(s) THEN s
    ELSE IF i < NUM_SIZES
    THEN seglist_mm_init_127(
             [PUT_PTR(s, s.heap_listp, 0) EXCEPT !.heap_listp = @ + DSIZE],
             i + 1)
    ELSE s

seglist_mm_init_138(s) ==
    IF Stopped(s) THEN s
    ELSE Ret([s EXCEPT !.heap_listp = @ + (2 * WSIZE)], 0)

seglist_mm_init_134(s) ==
    IF Stopped(s) THEN s
    ELSE seglist_mm_init_138(
             PUT(PUT(PUT(PUT(s, s.heap_listp, 0),
                         s.heap_listp + (1 * WSIZE), PACK(DSIZE, 1)),
                     s.heap_listp + (2 * WSIZE), PACK(DSIZE, 1)),
                 s.heap_listp + (3 * WSIZE), PACK(0, 1)))

seglist_mm_init_131(s) ==
    IF Stopped(s) THEN s
    ELSE seglist_mm_init_134(
             [s EXCEPT !.free_lists_end = s.heap_listp,
                       !.free_lists_pwr2_base =
                           s.free_lists_base + IR_SIZES * DSIZE])

seglist_mm_init_124(s) ==
    IF s.ret = -1
    THEN [s EXCEPT !.heap_listp = -1]
    ELSE seglist_mm_init_131(
             seglist_mm_init_127([s EXCEPT !.heap_listp = s.ret], 0))

seglist_mm_init(s, grant) ==
    IF Stopped(s) THEN s
    ELSE seglist_mm_init_124(
             seglist_mem_sbrk([s EXCEPT !.free_lists_base = mem_start_brk],
                              NUM_SIZES * DSIZE + 4 * WSIZE, grant))

(* malloc, lines 146-154, and calloc, lines 191-200. *)
seglist_malloc_151(s) ==
    IF Stopped(s) THEN s
    ELSE IF seglist_find_fit(s, 0) = UNDEF THEN Lost
    ELSE IF seglist_find_fit(s, 0) = HANG THEN Hang
    ELSE Ret(seglist_place(s, 0, 0), NULL)

seglist_malloc(s, size, grant) ==
    IF Stopped(s) THEN s
    ELSE seglist_malloc_151(seglist_extend_heap(s, 0, grant))

seglist_calloc_197(s, bytes) ==
    IF Stopped(s) THEN s
    ELSE Ret(memset(s, s.ret, 0, bytes), s.ret)

seglist_calloc(s, nmemb, size, grant) ==
    seglist_calloc_197(seglist_malloc(s, (nmemb * size) % SIZE_MOD, grant),
                       (nmemb * size) % SIZE_MOD)

(* ptoi, lines 391-393; insertBlk, lines 310-327; free, lines 159-175. *)
seglist_ptoi(bp) == IF bp = UNDEF \/ bp < mem_start_brk THEN UNDEF
                    ELSE bp - mem_start_brk

seglist_insertBlk_326(s, bp, array_ptr) ==
    IF Stopped(s) THEN s ELSE PUT_PTR(s, array_ptr, bp)

seglist_insertBlk_319(s, bp, head_bp) ==
    IF Stopped(s) THEN s ELSE PUT(s, head_bp, seglist_ptoi(bp))

seglist_insertBlk_318(s, bp, head_bp) ==
    IF Stopped(s) THEN s
    ELSE seglist_insertBlk_319(PUT(s, Plus(bp, WSIZE), seglist_ptoi(head_bp)),
                               bp, head_bp)

seglist_insertBlk_324(s, bp) ==
    IF Stopped(s) THEN s ELSE PUT(s, Plus(bp, WSIZE), 0)

seglist_insertBlk_316(s, bp, array_ptr, head_bp) ==
    IF array_ptr = UNDEF \/ head_bp = UNDEF THEN Lost
    ELSE seglist_insertBlk_326(
             IF head_bp # NULL
             THEN seglist_insertBlk_318(PUT(s, bp, 0), bp, head_bp)
             ELSE seglist_insertBlk_324(PUT(s, bp, 0), bp),
             bp, array_ptr)

seglist_insertBlk(s, bp) ==
    IF Stopped(s) THEN s
    ELSE seglist_insertBlk_316(
             s, bp, hashBlkSize(s, GET_SIZE(s, HDRP(bp))),
             GET_PTR(s, hashBlkSize(s, GET_SIZE(s, HDRP(bp)))))

seglist_free_174(s) ==
    IF Stopped(s) THEN s ELSE seglist_insertBlk(s, s.ret)

seglist_free_168(s, bp, size) ==
    IF Stopped(s) THEN s
    ELSE seglist_free_174(
             seglist_coalesce(PUT(s, FTRP(s, bp), PACK(size, 0)), bp))

seglist_free_167(s, bp, size) ==
    IF size = UNDEF THEN Lost
    ELSE seglist_free_168(PUT(s, HDRP(bp), PACK(size, 0)), bp, size)

seglist_free(s, bp) ==
    IF Stopped(s) \/ bp = 0 THEN s
    ELSE seglist_free_167(s, bp, GET_SIZE(s, HDRP(bp)))

(* The segregated allocator after its mm_init. *)
seglist_Start == Fresh(seglist_mm_init(seglist_Blank, TRUE))

(* The mm.c variables of a program linked with mm-seglist.c instead. *)
mm_NotLinked ==
    /\ mem = Blank.mem
    /\ mem_brk = mem_start_brk
    /\ mem_max_addr = Blank.max
    /\ heap_listp = 0
    /\ root = 0
    /\ heap_base = 0
    /\ live = <<>>
    /\ tail = 0
    /\ pc = "none"

(* --------------------------- hashBlkSize alone ------------------------ *)
(* hashBlkSize applied, after mm_init, to one block size.  The sizes are  *)
(* those a header can hold (a multiple of DSIZE from 2 * DSIZE on): every *)
(* one up to DenseTop, and the three around each power of two up to       *)
(* 2^MaxShift.  The address returned is the head at index                 *)
(* (hash_ret - free_lists_base) / DSIZE of the array.                     *)
DenseTop == 528
MaxShift == 21

HashSizes ==
    {n \in (2 * DSIZE) .. DenseTop : n % DSIZE = 0}
        \cup UNION {{2 ^ k - DSIZE, 2 ^ k, 2 ^ k + DSIZE} : k \in 9 .. MaxShift}

HashInit ==
    /\ mm_NotLinked
    /\ seglist = seglist_Start
    /\ hash_arg \in HashSizes
    /\ hash_ret = NULL

CallHash ==
    /\ hash_ret = NULL
    /\ hash_ret' = hashBlkSize(seglist, hash_arg)
    /\ UNCHANGED <<mm_vars, seglist, hash_arg>>

HashSpec == HashInit /\ [][CallHash]_vars

HeadIndex(s, ptr) == (ptr - s.free_lists_base) \div DSIZE

(* ------------------------- free on a laid-out heap -------------------- *)
(* A heap of up to MaxBlocks allocated blocks with sizes of SeglistSizes: *)
(* one block of the first exact class and two sizes of the class of       *)
(* 32 < w < 64, which merge into the class after it.  Each block is the   *)
(* one extend_heap makes at the end of the heap, with the allocated bit   *)
(* then set in both its tags as place of mm.c sets it (place of this     *)
(* file, lines 356-359, is empty).  The caller frees the blocks it holds, *)
(* in any order.                                                          *)
MaxBlocks == 5

SeglistSizes == {16, 136, 144}

RECURSIVE SumOf(_)
SumOf(q) == IF q = <<>> THEN 0 ELSE Head(q) + SumOf(Tail(q))

Layouts ==
    {q \in UNION {[1 .. n -> SeglistSizes] : n \in 1 .. MaxBlocks} :
        SumOf(q) <= SeglistRoom}

Granted(s) ==
    IF Stopped(s) \/ s.ret = NULL THEN Lost
    ELSE PUT(PUT(s, HDRP(s.ret), PACK(GET_SIZE(s, HDRP(s.ret)), 1)),
             FTRP(s, s.ret), PACK(GET_SIZE(s, HDRP(s.ret)), 1))

RECURSIVE Laid(_, _)
Laid(s, q) ==
    IF q = <<>> THEN s
    ELSE Laid(Granted(seglist_extend_heap(s, Head(q) \div WSIZE, TRUE)),
              Tail(q))

seglist_Held(s) == {bp \in Inner(s) : GET_ALLOC(s, HDRP(bp)) = 1}

SeglistInit ==
    /\ mm_NotLinked
    /\ hash_arg = 0
    /\ hash_ret = NULL
    /\ \E q \in Layouts : seglist = Fresh(Laid(seglist_Start, q))

SeglistFree ==
    \E bp \in seglist_Held(seglist) :
        /\ ~Stopped(seglist)
        /\ seglist' = Fresh(seglist_free(seglist, bp))
        /\ UNCHANGED <<mm_vars, hash_arg, hash_ret>>

SeglistSpec == SeglistInit /\ [][SeglistFree]_vars

seglist_Served(s, asize) ==
    /\ ~Stopped(s) /\ s.ret # NULL
    /\ GET_ALLOC(s, HDRP(s.ret)) = 1
    /\ GET_SIZE(s, HDRP(s.ret)) >= asize
    /\ GET(s, s.heap_listp - WSIZE) = PACK(DSIZE, 1)
    /\ GET(s, s.heap_listp) = PACK(DSIZE, 1)
    /\ GET(s, s.brk - WSIZE) = PACK(0, 1)

(* C16: in mm-seglist.c, malloc(n) with n > 0 returns, when the index     *)
(* holds a fit or the extension of the region succeeds, a non-null        *)
(* pointer to a block marked allocated of size >= the adjusted size, and  *)
(* leaves the prologue and the epilogue as they were.                     *)
C16_SeglistAllocate ==
    pc = "run" =>
        \A n \in ReqSizes :
            \A s \in {seglist_malloc(seglist_Start, n, TRUE)} :
                seglist_Served(s, AdjustedSize(n))

(* --------------------- claims on the free list of mm.c ---------------- *)
(* The blocks of the list before free that lie outside the block at the   *)
(* new root, in their order, and what a head insert of that block gives.  *)
Merged(s, b) == b >= s.root /\ b < s.root + GET_SIZE(s, HDRP(s.root))

Kept(s) == SelectSeq(FreeList(Machine), LAMBDA b : ~Merged(s, b))

HeadInsert(s, p) ==
    /\ ~Stopped(s)
    /\ s.root # NULL /\ GET_ALLOC(s, HDRP(s.root)) = 0
    /\ Merged(s, p)
    /\ prev_free_val(s, s.root) = 0
    /\ FreeList(s) = <<s.root>> \o Kept(s)

(* C17: after free(p) on a live allocation, root is the coalesced block   *)
(* that contains p, its prev link is 0, and the rest of the list is the   *)
(* list before the call without the merged neighbours, the other blocks   *)
(* in the order they had.                                                 *)
C17_FreeIsHeadInsert ==
    pc = "run" =>
        \A p \in Ptrs, grant \in BOOLEAN :
            \A s \in {free(Machine, p, grant)} : HeadInsert(s, p)

(* malloc returned a block of exactly asize bytes and a free block begins *)
(* where it ends: place split the block it was given.                     *)
HasSplit(s, asize) ==
    /\ ~Stopped(s) /\ s.ret # NULL
    /\ GET_SIZE(s, HDRP(s.ret)) = asize
    /\ GET_ALLOC(s, HDRP(s.ret + asize)) = 0
    /\ GET_SIZE(s, HDRP(s.ret + asize)) >= 2 * DSIZE

RemainderLeads(s, asize) ==
    HasSplit(s, asize) =>
        /\ s.root = s.ret + asize
        /\ prev_free_val(s, s.root) = 0
        /\ (root # NULL /\ root # s.ret) => get_next_free(s, s.root) = root

(* C18: when place splits the block B that malloc selected, B leaves the  *)
(* free list and the remainder at B + asize is inserted at the head: after *)
(* the call root is the remainder, its prev link is 0, and its next link  *)
(* leads to the former root if that was not B.                            *)
C18_SplitRemainderAtHead ==
    pc = "run" =>
        \A n \in ReqSizes, grant \in BOOLEAN :
            \A s \in {malloc(Machine, n, grant)} :
                RemainderLeads(s, AdjustedSize(n))

(* The block sizes find_fit is asked for, and one that no block has. *)
FitSizes == {AdjustedSize(n) : n \in AllSizes} \cup {DEEP_HEAP}

FirstFit(r, asize) ==
    /\ r # UNDEF /\ r # HANG
    /\ r = NULL <=>
           \A k \in DOMAIN FreeList(Machine) :
               ~(GET_SIZE(Machine, HDRP(FreeList(Machine)[k])) >= asize)
    /\ r # NULL =>
           \E k \in DOMAIN FreeList(Machine) :
               /\ FreeList(Machine)[k] = r
               /\ GET_SIZE(Machine, HDRP(r)) >= asize
               /\ \A j \in 1 .. (k - 1) :
                     GET_SIZE(Machine, HDRP(FreeList(Machine)[j])) < asize

(* C19: find_fit(asize) ends on every free list the program reaches and   *)
(* returns the first block from root along the next links whose size is   *)
(* >= asize, and NULL exactly when the list has no such block.  (It       *)
(* stores nothing: src/mm.c:436-441 only reads.)                          *)
C19_FirstFit ==
    pc = "run" =>
        \A asize \in FitSizes :
            \A r \in {find_fit(Machine, asize)} : FirstFit(r, asize)

(* ----------------------------- coalesce -------------------------------- *)
(* The state in which free calls coalesce(p): header and footer of p      *)
(* marked free (src/mm.c:210-211).  The neighbours of p as the tags next  *)
(* to it describe them before the call.                                   *)
JustFreed(p) ==
    PUT(PUT(Machine, HDRP(p), PACK(GET_SIZE(Machine, HDRP(p)), 0)),
        FTRP(Machine, p), PACK(GET_SIZE(Machine, HDRP(p)), 0))

PrevSize(p) ==
    IF GET_ALLOC(Machine, p - DSIZE) = 0
    THEN GET_SIZE(Machine, p - DSIZE) ELSE 0

NextAt(p) == p + GET_SIZE(Machine, HDRP(p))

NextSize(p) ==
    IF GET_ALLOC(Machine, HDRP(NextAt(p))) = 0
    THEN GET_SIZE(Machine, HDRP(NextAt(p))) ELSE 0

Total(p) == PrevSize(p) + GET_SIZE(Machine, HDRP(p)) + NextSize(p)

OtherTagsKept(c, p) ==
    \A b \in Range(Walk(Machine)) :
        (b < p - PrevSize(p) \/ b >= p - PrevSize(p) + Total(p)) =>
            /\ GET(c, HDRP(b)) = GET(Machine, HDRP(b))
            /\ GET_SIZE(Machine, HDRP(b)) # 0 =>
                   GET(c, FTRP(Machine, b)) = GET(Machine, FTRP(Machine, b))

Coalesced(c, p) ==
    /\ ~Stopped(c)
    /\ c.ret = p - PrevSize(p)
    /\ GET(c, HDRP(c.ret)) = PACK(Total(p), 0)
    /\ GET(c, c.ret + Total(p) - DSIZE) = PACK(Total(p), 0)
    /\ NextSize(p) # 0 => NextAt(p) \notin Range(FreeList(c))
    /\ Cardinality({k \in DOMAIN FreeList(c) : FreeList(c)[k] = c.ret}) = 1
    /\ OtherTagsKept(c, p)

(* mm.c: every coalesce(p) that a free of a held pointer makes. *)
CoalesceOfFree ==
    pc = "run" =>
        \A p \in Ptrs : \A c \in {coalesce(JustFreed(p), p)} : Coalesced(c, p)

(* mm-seglist.c: the one call of coalesce the program can make, from the  *)
(* extend_heap(0) of malloc, on the block of size 0 at the old break.     *)
seglist_CoalesceOfExtend ==
    \A c \in {seglist_extend_heap(seglist_Start, 0, TRUE)} :
        /\ ~Stopped(c)
        /\ c.ret = seglist_Start.brk
        /\ GET(c, HDRP(c.ret)) = PACK(0, 0)

(* C20: in both variants coalesce(B), B just marked free, returns the     *)
(* predecessor if it is free and B otherwise; header and footer of the    *)
(* block returned carry alloc = 0 and the size of B plus the sizes of the *)
(* immediate neighbours that were free; a merged neighbour is no longer   *)
(* an element of the free list; the header and footer of every other      *)
(* block are unchanged.                                                   *)
C20_Coalesce == CoalesceOfFree /\ seglist_CoalesceOfExtend

(* -------------------------- the adjusted size -------------------------- *)
(* Request sizes up to the largest value of size_t, and the block size    *)
(* max(16, 8 * ceil((n + 8) / 8)) in unbounded arithmetic.                *)
TopSizes == ReqSizes \cup ((SIZE_MOD - 3 * DSIZE) .. (SIZE_MOD - 1))

RoundedUp(n) == MAX(2 * DSIZE, DSIZE * ((n + DSIZE + (DSIZE - 1)) \div DSIZE))

(* C21: for every request size n > 0 of size_t, malloc takes the block    *)
(* size a = max(16, 8 * ceil((n + 8) / 8)): a multiple of 8, at least 16  *)
(* and at least n + 8; the size arithmetic does not wrap to less.         *)
C21_AdjustedSize ==
    pc = "run" =>
        \A n \in TopSizes :
            /\ AdjustedSize(n) = RoundedUp(n)
            /\ AdjustedSize(n) % DSIZE = 0
            /\ AdjustedSize(n) >= 2 * DSIZE
            /\ AdjustedSize(n) >= n + DSIZE

(* ------------------------- the copy of realloc ------------------------- *)
(* The payload of the block at p is its size less header and footer.     *)
PayloadSize(p) == GET_SIZE(Machine, HDRP(p)) - DSIZE

CopiesPayload(s, p, n) ==
    (~Stopped(s) /\ s.ret # NULL) =>
        s.rd = p .. (p + MinOf(n, PayloadSize(p)) - 1)

(* C22: realloc(p, n), p non-null, n > 0, whose malloc succeeds, copies   *)
(* exactly min(n, size(p) - 8) bytes: it reads no byte beyond the payload *)
(* of p, neither the footer of p nor the header of the next block.        *)
C22_ReallocCopy ==
    pc = "run" =>
        \A p \in Ptrs, n \in ReqSizes, grant \in BOOLEAN :
            \A s \in {realloc(Machine, p, n, grant)} : CopiesPayload(s, p, n)

(* ------------------------------ deleteFree ----------------------------- *)
(* The block place is given by malloc(n) when a block of the list fits,   *)
(* and whether place takes it whole, which is when it calls deleteFree on *)
(* it first (src/mm.c:399); in coalesce, case 2, the first call is        *)
(* deleteFree of the next block (src/mm.c:317).                           *)
TakenWhole(bp, asize) ==
    /\ bp # NULL /\ bp # UNDEF /\ bp # HANG
    /\ (GET_SIZE(Machine, HDRP(bp)) - asize) % SIZE_MOD < 2 * DSIZE

Removed(c, m, bp) ==
    /\ ~Stopped(c)
    /\ c.root = IF prev_free_val(m, bp) = 0
                THEN get_next_free(m, bp) ELSE m.root
    /\ bp \notin Range(FreeList(c))

(* C23: deleteFree(B), B on the free list: if prev(B) = 0 the root is     *)
(* next(B) afterwards (0 if B was the only element); if prev(B) # 0 the   *)
(* root is unchanged; in both cases B cannot be reached from the root.    *)
C23_DeleteFree ==
    pc = "run" =>
        /\ \A n \in ReqSizes :
               \A bp \in {find_fit(Machine, AdjustedSize(n))} :
                   TakenWhole(bp, AdjustedSize(n)) =>
                       Removed(deleteFree(Machine, bp), Machine, bp)
        /\ \A p \in Ptrs :
               (PrevSize(p) = 0 /\ NextSize(p) # 0) =>
                   Removed(deleteFree(JustFreed(p), NextAt(p)),
                           JustFreed(p), NextAt(p))

(* ----------------------------- size classes --------------------------- *)
(* The class of a block of w words by the table: one class for each even  *)
(* w of 4 .. 32, one for 32 < w < 64, one for each [2^(5+k), 2^(6+k)),    *)
(* k = 1 .. 12, and the last for w >= 2^18.                               *)
SizeClass(w) ==
    IF w <= 32 THEN (w - 4) \div 2
    ELSE IF w < 64 THEN IR_SIZES
    ELSE IF w >= 2 ^ 18 THEN NUM_SIZES - 1
    ELSE IR_SIZES
           + CHOOSE k \in 1 .. 12 : 2 ^ (5 + k) <= w /\ w < 2 ^ (6 + k)

Hashed == hash_ret # NULL

(* C24: hashBlkSize maps a block size s (a multiple of 8, >= 16), of      *)
(* w = s / 4 words, to the head of its class in the table: (w - 4) / 2    *)
(* for w in {4, 6, ..., 32}, 15 for 32 < w < 64, 15 + k for               *)
(* 2^(5+k) <= w < 2^(6+k), k = 1 .. 12, 28 for w >= 2^18; the index is    *)
(* never outside 0 .. 28.                                                 *)
C24_SizeClasses ==
    Hashed =>
        /\ HeadIndex(seglist, hash_ret) = SizeClass(hash_arg \div WSIZE)
        /\ HeadIndex(seglist, hash_ret) \in 0 .. (NUM_SIZES - 1)
        /\ hash_ret = seglist.free_lists_base
                         + HeadIndex(seglist, hash_ret) * DSIZE

(* A block of more than 2^18 words has been hashed to the last head. *)
C24_Witness ==
    /\ Hashed
    /\ hash_arg \div WSIZE > 2 ^ 18
    /\ HeadIndex(seglist, hash_ret) = NUM_SIZES - 1

(* floor(log2(num / den)) of the quotient taken exactly. *)
RECURSIVE FloorLog2(_, _)
FloorLog2(num, den) ==
    IF num < den THEN FloorLog2(2 * num, den) - 1
    ELSE IF num < 2 * den THEN 0
    ELSE FloorLog2(num, 2 * den) + 1

Formula(w, den) ==
    IF w <= 32 THEN (w - 4) \div 2
    ELSE MinOf(NUM_SIZES - 1, IR_SIZES + FloorLog2(w, den))

(* C25 as stated: the index is (w - 4) / 2 when w <= 32 and otherwise     *)
(* 15 + floor(log2(w / 64)) clamped to 28.                                *)
C25_Log2Of64 ==
    Hashed =>
        HeadIndex(seglist, hash_ret) = Formula(hash_arg \div WSIZE, 64)

(* C25: the index is (w - 4) / 2 when w <= 32 and otherwise               *)
(* 15 + floor(log2(w / 32)) clamped to 28.                                *)
C25_Log2Of32 ==
    Hashed =>
        HeadIndex(seglist, hash_ret) = Formula(hash_arg \div WSIZE, 32)

(* A block of [64, 128) words has been hashed: to head 16. *)
C25_Witness ==
    /\ Hashed
    /\ hash_arg \div WSIZE \in 64 .. 127
    /\ HeadIndex(seglist, hash_ret) = IR_SIZES + 1

(* --------------------------- the segregated index --------------------- *)
(* The list of head i along the next links, the lists of heads i .. 28    *)
(* one after the other, and the first block of a sequence of size >= a.   *)
RECURSIVE seglist_ListFrom(_, _, _)
seglist_ListFrom(s, bp, fuel) ==
    IF bp = NULL THEN <<>>
    ELSE IF bp = UNDEF \/ fuel = 0 THEN <<UNDEF>>
    ELSE <<bp>> \o seglist_ListFrom(s, get_next_free_bp(s, bp), fuel - 1)

Bucket(s, i) ==
    seglist_ListFrom(s, GET_PTR(s, s.free_lists_base + i * DSIZE), WalkFuel)

RECURSIVE BucketsFrom(_, _)
BucketsFrom(B, i) ==
    IF i >= NUM_SIZES THEN <<>> ELSE B[i] \o BucketsFrom(B, i + 1)

RECURSIVE FirstOf(_, _, _)
FirstOf(s, q, a) ==
    IF q = <<>> THEN NULL
    ELSE IF GET_SIZE(s, HDRP(Head(q))) >= a THEN Head(q)
    ELSE FirstOf(s, Tail(q), a)

ClassOf(s, bp) == SizeClass(GET_SIZE(s, HDRP(bp)) \div WSIZE)

(* The 29 lists, and the places of a block on them. *)
Index(s) == [i \in 0 .. (NUM_SIZES - 1) |-> Bucket(s, i)]

Places(B, bp) ==
    {ik \in (DOMAIN B) \X (1 .. MaxBlocks) :
        ik[2] \in DOMAIN B[ik[1]] /\ B[ik[1]][ik[2]] = bp}

Sorted(s, B) ==
    /\ \A i \in DOMAIN B :
           /\ Len(B[i]) <= MaxBlocks
           /\ \A k \in DOMAIN B[i] :
                  B[i][k] \in FreeBlocks(s) /\ ClassOf(s, B[i][k]) = i
    /\ \A bp \in FreeBlocks(s) : Cardinality(Places(B, bp)) = 1

InItsBucket(s) == LET B == Index(s) IN Sorted(s, B)

Linked(s, B) ==
    \A i \in DOMAIN B :
        \A k \in DOMAIN B[i] :
            get_prev_free_bp(s, B[i][k])
                = IF k = 1 THEN NULL ELSE B[i][k - 1]

BackLinked(s) == LET B == Index(s) IN Linked(s, B)

NoneAdjacent(s) ==
    \A bp \in FreeBlocks(s) : NEXT_BLKP(s, bp) \notin FreeBlocks(s)

(* The sizes asked of find_fit: the size of a block or of two merged, and *)
(* the next size after it.                                                *)
FitAsks ==
    UNION {{n, n + DSIZE} :
              n \in SeglistSizes \cup {x + y : x, y \in SeglistSizes}}

FirstFits(s, B) ==
    \A a \in FitAsks :
        \A bp \in {seglist_find_fit(s, a)} :
            /\ bp = FirstOf(s, BucketsFrom(B, SizeClass(a \div WSIZE)), a)
            /\ bp = NULL <=> \A b \in FreeBlocks(s) : GET_SIZE(s, HDRP(b)) < a

(* C26: on an index where every free block is in its bucket, find_fit(a), *)
(* a >= 16, scans the buckets in ascending order from the bucket of a,    *)
(* each from head to tail, and returns the first block of size >= a; it   *)
(* returns null exactly when no free block of any bucket has size >= a.   *)
C26_SeglistFirstFit ==
    (~Stopped(seglist) /\ InItsBucket(seglist)) =>
        LET B == Index(seglist) IN FirstFits(seglist, B)

(* find_fit passes a head that is too small and returns the block after   *)
(* it, and for a smaller size finds nothing in the bucket of that size    *)
(* and returns a block of a higher bucket.                                *)
C26_Witness ==
    /\ ~Stopped(seglist) /\ InItsBucket(seglist)
    /\ \E a \in FitAsks :
           \E bp \in {seglist_find_fit(seglist, a)} \ {NULL} :
               get_prev_free_bp(seglist, bp) # NULL
    /\ \E a \in FitAsks :
           \E bp \in {seglist_find_fit(seglist, a)} \ {NULL} :
               ClassOf(seglist, bp) > SizeClass(a \div WSIZE)

(* C27: free(p) of an allocated block of a well-formed segregated heap    *)
(* keeps the index well formed: every free block is on exactly one list,  *)
(* the one of the bucket of its present size; the back-pointers agree     *)
(* with the next links and a head has prev = 0; no two free blocks are    *)
(* adjacent; a merged neighbour has left the list of the bucket of the    *)
(* size it had before the merge.                                          *)
C27_FreeKeepsIndex ==
    /\ ~Stopped(seglist)
    /\ InItsBucket(seglist)
    /\ BackLinked(seglist)
    /\ NoneAdjacent(seglist)

(* free has merged a block with both its neighbours, which were on the   *)
(* list of 32 < w < 64, the next one in front of the previous one, into   *)
(* one block, now alone on the list after it.                             *)
C27_Witness ==
    /\ ~Stopped(seglist)
    /\ \E bp \in FreeBlocks(seglist) :
           /\ GET_SIZE(seglist, HDRP(bp)) = 136 + 16 + 144
           /\ get_next_free_bp(seglist, bp + 136 + 16) = bp
           /\ Bucket(seglist, IR_SIZES + 1) = <<bp>>
           /\ Bucket(seglist, IR_SIZES) = <<>>
           /\ Bucket(seglist, 0) = <<>>

====
